---- MODULE Spec2Model ----
(***************************************************************************)
(* Model of assets/generate_demo_gif.py: the Canvas Renderer               *)
(* (create_frame), the Sequence Builder (generate_frames), the Animation   *)
(* Encoder and the Size-Guarded Re-encoder (main, optimize_gif).           *)
(*                                                                         *)
(* A text is a TLA+ string for the script's literals and a sequence of     *)
(* one-character strings for the command and its prefixes (the only text   *)
(* the code slices).  Non-ASCII glyphs are written by their code point.    *)
(* A Segment is <<text, color>>, a Line a sequence of Segments, a Frame    *)
(* Content a sequence of Lines, an entry of frames <<image, duration>>.    *)
(***************************************************************************)
EXTENDS Integers, Sequences, FiniteSets, TLC

\* ---------------------------------------------------------------- bounds
MaxCmdLen == 3
SizeSlack == 1

\* ------------------------------------------------------- configuration
WIDTH == 800
HEIGHT == 720
TEXT_COLOR == <<205, 214, 244>>
DIM_COLOR == <<127, 132, 156>>
GREEN == <<166, 227, 161>>
CYAN == <<137, 220, 235>>
YELLOW == <<249, 226, 175>>
BLUE == <<137, 180, 250>>
WHITE == <<255, 255, 255>>
PROMPT_COLOR == <<166, 227, 161>>
LINE_HEIGHT == 22
PADDING_X == 24
PADDING_Y == 50
TITLE_BAR_H == 38
OUTPUT_PATH == "demo-cli.gif"

\* "█", the cursor block
CURSOR == "U+2588"

\* An RGB bitmap can hold any of 2^24 colors; quantize(colors=64) leaves 64.
FullColors == 256 * 256 * 256
QuantizeColors == 64

\* The 5 MB target of main, in bytes (size_mb = size_bytes / (1024 * 1024)).
MiB == 1024 * 1024
TargetMB == 5

\* ------------------------------------------------------------- inputs
Chars == {"l", " "}

RECURSIVE StringsOfLen(_)
StringsOfLen(n) ==
    IF n = 0 THEN {<<>>}
    ELSE {Append(s, c) : s \in StringsOfLen(n - 1), c \in Chars}

\* The literal of the script: "npx markupr analyze ./demo-recording.mov"
ScriptCommand ==
    <<"n","p","x"," ","m","a","r","k","u","p","r"," ",
      "a","n","a","l","y","z","e"," ",".","/",
      "d","e","m","o","-","r","e","c","o","r","d","i","n","g",".","m","o","v">>

Commands ==
    {ScriptCommand} \cup UNION {StringsOfLen(n) : n \in 0..MaxCmdLen}

\* Byte sizes the encoder may produce, on both sides of the target.
Sizes == (TargetMB * MiB - SizeSlack)..(TargetMB * MiB + SizeSlack)

\* ----------------------------------------------------- Canvas Renderer
\* A slip: y advanced before the line is drawn instead of after.
create_frame_advance_first(lines) ==
    [size |-> <<WIDTH, HEIGHT>>,
     rows |-> [n \in 1..Len(lines) |->
                 [x |-> PADDING_X,
                  y |-> PADDING_Y + n * LINE_HEIGHT,
                  line |-> lines[n]]],
     colors |-> FullColors]

\* create_frame: y starts at PADDING_Y and advances by LINE_HEIGHT per line;
\* every segmented line is drawn from x = PADDING_X.
create_frame(lines) ==
    [size |-> <<WIDTH, HEIGHT>>,
     rows |-> [n \in 1..Len(lines) |->
                 [x |-> PADDING_X,
                  y |-> PADDING_Y + (n - 1) * LINE_HEIGHT,
                  line |-> lines[n]]],
     colors |-> FullColors]

\* text[:typed_so_far] for typed_so_far >= 0
Slice(text, n) == SubSeq(text, 1, IF n < Len(text) THEN n ELSE Len(text))

\* A slip: the slice one character short.
build_cursor_line_short(text, typed_so_far) ==
    <<<<"$ ", PROMPT_COLOR>>, <<Slice(text, typed_so_far - 1), TEXT_COLOR>>,
      <<CURSOR, WHITE>>>>

build_cursor_line(text, typed_so_far) ==
    <<<<"$ ", PROMPT_COLOR>>, <<Slice(text, typed_so_far), TEXT_COLOR>>,
      <<CURSOR, WHITE>>>>

\* ---------------------------------------------------- Sequence Builder
\* One pass of the idle-blink loop body: prompt with cursor, prompt without.
IdleBlinkFrames ==
    <<<<create_frame(<<<<<<"$ ", PROMPT_COLOR>>, <<CURSOR, WHITE>>>>>>), 400>>,
      <<create_frame(<<<<<<"$ ", PROMPT_COLOR>>>>>>), 300>>>>

\* The delay of the typing frame at prefix length i (1-based, i <= len).
TypingDelay(cmd, i) ==
    IF cmd[i] = " " THEN 100
    ELSE IF i = Len(cmd) THEN 400
    ELSE 45

full_cmd(cmd) == <<<<"$ ", PROMPT_COLOR>>, <<cmd, TEXT_COLOR>>>>

header_lines(cmd) ==
    << full_cmd(cmd),
       <<>>,
       <<<<"  markupr", CYAN>>, <<" v2.6.0", DIM_COLOR>>,
         <<" U+2014 Intelligent Developer Feedback", DIM_COLOR>>>>,
       <<>> >>

analyzing(cmd) ==
    header_lines(cmd) \o
    << <<<<"  U+25B8 ", YELLOW>>, <<"Analyzing: ", TEXT_COLOR>>,
         <<"demo-recording.mov", WHITE>>, <<" (2m 34s)", DIM_COLOR>>>>,
       <<>> >>

PhaseHeader(name) == <<<<"  U+25A0 ", CYAN>>, <<name, WHITE>>>>
UsingLine ==
    <<<<"    U+251C U+2500 ", DIM_COLOR>>, <<"Using: ", TEXT_COLOR>>,
      <<"Local Whisper (base model)", BLUE>>>>
Working(text) == <<<<"    U+251C U+2500 ", DIM_COLOR>>, <<text, DIM_COLOR>>>>
Done(text) ==
    <<<<"    U+2514 U+2500 ", DIM_COLOR>>, <<"U+2713 ", GREEN>>,
      <<text, TEXT_COLOR>>>>

\* A slip: t4 shows the done line in place of the processing line.
TranscriptionFramesReplace(base) ==
    << << base \o <<PhaseHeader("Transcription")>>, 500 >>,
       << base \o <<PhaseHeader("Transcription"), UsingLine>>, 600 >>,
       << base \o <<PhaseHeader("Transcription"), UsingLine,
                    Working("Processing audio...")>>, 1800 >>,
       << base \o <<PhaseHeader("Transcription"), UsingLine,
                    Done("12 segments transcribed (2m 34s)")>>, 800 >> >>

\* Phase 3: the Frame Contents t1..t4 with their durations.
TranscriptionFrames(base) ==
    << << base \o <<PhaseHeader("Transcription")>>, 500 >>,
       << base \o <<PhaseHeader("Transcription"), UsingLine>>, 600 >>,
       << base \o <<PhaseHeader("Transcription"), UsingLine,
                    Working("Processing audio...")>>, 1800 >>,
       << base \o <<PhaseHeader("Transcription"), UsingLine,
                    Working("Processing audio..."),
                    Done("12 segments transcribed (2m 34s)")>>, 800 >> >>

\* A slip: base2 built on base (analyzing) instead of t4.
base2_from_base(t4) == SubSeq(t4, 1, Len(t4) - 4) \o << <<>> >>

\* base2 = t4 + [[]]
base2_of(t4) == t4 \o << <<>> >>

\* Phase 4: f1..f4 on top of base2.
FrameExtractionFrames(t4) ==
    LET base2 == base2_of(t4)
    IN << << base2 \o <<PhaseHeader("Frame Extraction")>>, 500 >>,
          << base2 \o <<PhaseHeader("Frame Extraction"),
                Working("Detecting key moments from transcript...")>>, 1200 >>,
          << base2 \o <<PhaseHeader("Frame Extraction"),
                Working("Detecting key moments from transcript..."),
                Working("Extracting frames at timestamps...")>>, 1400 >>,
          << base2 \o <<PhaseHeader("Frame Extraction"),
                Working("Detecting key moments from transcript..."),
                Working("Extracting frames at timestamps..."),
                Done("8 frames captured")>>, 800 >> >>

\* A slip: the confirmation frame held longer than the processing frames.
DocumentGenerationFramesSlowDone(f4) ==
    LET base3 == f4 \o << <<>> >>
    IN << << base3 \o <<PhaseHeader("Document Generation")>>, 500 >>,
          << base3 \o <<PhaseHeader("Document Generation"),
                Working("Correlating screenshots with transcript...")>>, 1000 >>,
          << base3 \o <<PhaseHeader("Document Generation"),
                Working("Correlating screenshots with transcript..."),
                Working("Building structured markdown...")>>, 1200 >>,
          << base3 \o <<PhaseHeader("Document Generation"),
                Working("Correlating screenshots with transcript..."),
                Working("Building structured markdown..."),
                Done("Document ready")>>, 1500 >> >>

\* Phase 5: base3 = f4 + [[]], then d1..d4.
DocumentGenerationFrames(f4) ==
    LET base3 == f4 \o << <<>> >>
    IN << << base3 \o <<PhaseHeader("Document Generation")>>, 500 >>,
          << base3 \o <<PhaseHeader("Document Generation"),
                Working("Correlating screenshots with transcript...")>>, 1000 >>,
          << base3 \o <<PhaseHeader("Document Generation"),
                Working("Correlating screenshots with transcript..."),
                Working("Building structured markdown...")>>, 1200 >>,
          << base3 \o <<PhaseHeader("Document Generation"),
                Working("Correlating screenshots with transcript..."),
                Working("Building structured markdown..."),
                Done("Document ready")>>, 800 >> >>

\* A slip: the final frame held no longer than the longest work frame.
FinalHoldShort == 3000 - 1200

\* frames.append((create_frame(s6), 3000))  # Hold final frame
FinalHold == 3000

\* Phase 6: base4 = d4 + [[]], then s1..s6, each extending the one before.
SummaryFrames(d4) ==
    LET base4 == d4 \o << <<>> >>
        s1 == base4 \o << <<<<"  ", TEXT_COLOR>>, <<"U+2501 * 43", DIM_COLOR>>>> >>
        s2 == s1 \o << <<>>,
                 <<<<"  U+2713 ", GREEN>>, <<"Output: ", TEXT_COLOR>>,
                   <<"./markupr-output/demo-recording.md", CYAN>>>> >>
        s3 == s2 \o << <<>>,
                 <<<<"    Markdown document with ", DIM_COLOR>>, <<"8", WHITE>>,
                   <<" embedded screenshots", DIM_COLOR>>>> >>
        s4 == s3 \o << <<<<"    ", TEXT_COLOR>>, <<"3", WHITE>>,
                   <<" issues identified, ", DIM_COLOR>>, <<"2", WHITE>>,
                   <<" suggestions captured", DIM_COLOR>>>> >>
        s5 == s4 \o << <<<<"    File path copied to clipboard", DIM_COLOR>>>> >>
        s6 == s5 \o << <<>>,
                 <<<<"  Paste into your AI coding agent to action feedback ",
                     DIM_COLOR>>, <<"U+2192", YELLOW>>>> >>
    IN << <<s1, 600>>, <<s2, 800>>, <<s3, 500>>, <<s4, 500>>, <<s5, 600>>,
          <<s6, FinalHold>> >>

\* frames.append((create_frame(content), duration)) for each staged state
Render(staged) ==
    [n \in 1..Len(staged) |-> <<create_frame(staged[n][1]), staged[n][2]>>]

\* ------------------------------------------- Encoder and Re-encoder
\* images[0].save(path, save_all=True, append_images=images[1:],
\*                duration=durations, loop=0, optimize=True)
Encode(imgs, durs) == [images |-> imgs, duration |-> durs, loop |-> 0]

\* img.quantize(colors=64, method=MEDIANCUT).convert("RGB")
Quantize(img) == [img EXCEPT !.colors = QuantizeColors]

\* A slip: the re-encode called without duration=durations.
optimize_gif_no_duration(imgs, durs) ==
    [images |-> [n \in 1..Len(imgs) |-> Quantize(imgs[n])],
     duration |-> <<>>, loop |-> 0]

\* The artifact optimize_gif writes.
optimize_gif(imgs, durs) ==
    Encode([n \in 1..Len(imgs) |-> Quantize(imgs[n])], durs)

\* A slip: floor division, size_mb = size_bytes // (1024 * 1024).
SizeExceedsFloor(bytes) == (bytes \div MiB) > TargetMB

\* if size_mb > 5, with size_mb = size_bytes / (1024 * 1024) a true division
\* (exact: the divisor is a power of two).
SizeExceeds(bytes) == bytes > TargetMB * MiB

NoArtifact == [images |-> <<>>, duration |-> <<>>, loop |-> -1]

\* ----------------------------------------------------------- state
VARIABLES
    pc,           \* position in main / generate_frames
    command,      \* the command literal typed in Phase 1
    frames,       \* generate_frames' list of (image, duration)
    blink,        \* completed passes of the idle-blink loop
    i,            \* the typing loop's index
    transcript,   \* the Frame Content the next phase extends
    images,       \* main's images
    durations,    \* main's durations
    artifact,     \* the content last written to OUTPUT_PATH by this run
    initial,      \* the content the initial encode wrote
    written,      \* completed writes of OUTPUT_PATH by this run
    file_size,    \* byte size of the file at OUTPUT_PATH
    size_bytes,   \* main's size_bytes
    console,      \* the lines printed so far
    optimizeRuns  \* calls of optimize_gif

vars == <<pc, command, frames, blink, i, transcript, images, durations,
          artifact, initial, written, file_size, size_bytes, console,
          optimizeRuns>>

builder == <<command, images, durations, artifact, initial, written,
             file_size, size_bytes, optimizeRuns>>

Init ==
    /\ pc = "blink"
    /\ command \in Commands
    /\ frames = <<>>
    /\ blink = 0
    /\ i = 1
    /\ transcript = <<>>
    /\ images = <<>>
    /\ durations = <<>>
    /\ artifact = NoArtifact
    /\ initial = NoArtifact
    /\ written = 0
    /\ file_size = 0
    /\ size_bytes = 0
    /\ console = <<"Generating frames...">>
    /\ optimizeRuns = 0

\* for _ in range(3): two frames per pass
IdleBlink ==
    /\ pc = "blink"
    /\ blink < 3
    /\ frames' = frames \o IdleBlinkFrames
    /\ blink' = blink + 1
    /\ pc' = IF blink + 1 = 3 THEN "typing" ELSE "blink"
    /\ UNCHANGED <<i, transcript, console>>
    /\ UNCHANGED builder

\* for i in range(1, len(command) + 1): one frame per prefix length
TypeChar ==
    /\ pc = "typing"
    /\ i <= Len(command)
    /\ frames' = Append(frames,
           <<create_frame(<<build_cursor_line(command, i)>>),
             TypingDelay(command, i)>>)
    /\ i' = i + 1
    /\ UNCHANGED <<pc, blink, transcript, console>>
    /\ UNCHANGED builder

\* the loop is exhausted: the full command without cursor
CommandEcho ==
    /\ pc = "typing"
    /\ i > Len(command)
    /\ frames' = Append(frames, <<create_frame(<<full_cmd(command)>>), 600>>)
    /\ transcript' = <<full_cmd(command)>>
    /\ pc' = "header"
    /\ UNCHANGED <<blink, i, console>>
    /\ UNCHANGED builder

\* Phase 2: header, then the analyzing line
InitialOutput ==
    /\ pc = "header"
    /\ frames' = frames \o
           Render(<< <<header_lines(command), 800>>,
                     <<analyzing(command), 1000>> >>)
    /\ transcript' = analyzing(command)
    /\ pc' = "transcription"
    /\ UNCHANGED <<blink, i, console>>
    /\ UNCHANGED builder

\* Phase 3: t1..t4 on top of analyzing
Transcription ==
    /\ pc = "transcription"
    /\ frames' = frames \o Render(TranscriptionFrames(transcript))
    /\ transcript' = TranscriptionFrames(transcript)[Len(TranscriptionFrames(transcript))][1]
    /\ pc' = "extraction"
    /\ UNCHANGED <<blink, i, console>>
    /\ UNCHANGED builder

\* Phase 4: f1..f4 on top of t4
FrameExtraction ==
    /\ pc = "extraction"
    /\ frames' = frames \o Render(FrameExtractionFrames(transcript))
    /\ transcript' = FrameExtractionFrames(transcript)[Len(FrameExtractionFrames(transcript))][1]
    /\ pc' = "document"
    /\ UNCHANGED <<blink, i, console>>
    /\ UNCHANGED builder

\* Phase 5: d1..d4 on top of f4
DocumentGeneration ==
    /\ pc = "document"
    /\ frames' = frames \o Render(DocumentGenerationFrames(transcript))
    /\ transcript' = DocumentGenerationFrames(transcript)[Len(DocumentGenerationFrames(transcript))][1]
    /\ pc' = "summary"
    /\ UNCHANGED <<blink, i, console>>
    /\ UNCHANGED builder

\* Phase 6: s1..s6 on top of d4; generate_frames returns
Summary ==
    /\ pc = "summary"
    /\ frames' = frames \o Render(SummaryFrames(transcript))
    /\ transcript' = SummaryFrames(transcript)[Len(SummaryFrames(transcript))][1]
    /\ pc' = "save"
    /\ UNCHANGED <<blink, i, console>>
    /\ UNCHANGED builder

ImagesOf(fs) == [n \in 1..Len(fs) |-> fs[n][1]]
DurationsOf(fs) == [n \in 1..Len(fs) |-> fs[n][2]]

\* main: the initial encode returns
SaveOk ==
    /\ pc = "save"
    /\ images' = ImagesOf(frames)
    /\ durations' = DurationsOf(frames)
    /\ artifact' = Encode(ImagesOf(frames), DurationsOf(frames))
    /\ initial' = artifact'
    /\ written' = written + 1
    /\ file_size' \in Sizes
    /\ console' = console \o <<"frames generated", "Saving GIF...">>
    /\ pc' = "report"
    /\ UNCHANGED <<command, frames, blink, i, transcript, size_bytes,
                   optimizeRuns>>

\* main: the initial encode raises; nothing catches it
SaveFail ==
    /\ pc = "save"
    /\ images' = ImagesOf(frames)
    /\ durations' = DurationsOf(frames)
    /\ console' = console \o <<"frames generated", "Saving GIF...">>
    /\ pc' = "aborted"
    /\ UNCHANGED <<command, frames, blink, i, transcript, artifact, initial,
                   written, file_size, size_bytes, optimizeRuns>>

\* main: measure, report, and decide on the re-encode
Report ==
    /\ pc = "report"
    /\ size_bytes' = file_size
    /\ console' = console \o <<"Saved to", "Size", "Dimensions", "Frames">>
                    \o (IF SizeExceeds(file_size) THEN <<"WARNING">> ELSE <<>>)
    /\ pc' = IF SizeExceeds(file_size) THEN "optimize" ELSE "done"
    /\ UNCHANGED <<command, frames, blink, i, transcript, images, durations,
                   artifact, initial, written, file_size, optimizeRuns>>

\* optimize_gif returns
OptimizeOk ==
    /\ pc = "optimize"
    /\ optimizeRuns' = optimizeRuns + 1
    /\ artifact' = optimize_gif(images, durations)
    /\ written' = written + 1
    /\ file_size' \in Sizes
    /\ console' = Append(console, "Optimized size")
    /\ pc' = "done"
    /\ UNCHANGED <<command, frames, blink, i, transcript, images, durations,
                   initial, size_bytes>>

\* A slip: the re-encode wrapped in try/except that swallows the failure.
OptimizeFailSwallowed ==
    /\ pc = "optimize"
    /\ optimizeRuns' = optimizeRuns + 1
    /\ pc' = "done"
    /\ UNCHANGED <<command, frames, blink, i, transcript, images, durations,
                   artifact, initial, written, file_size, size_bytes, console>>

\* optimize_gif raises; nothing catches it
OptimizeFail ==
    /\ pc = "optimize"
    /\ optimizeRuns' = optimizeRuns + 1
    /\ pc' = "aborted"
    /\ UNCHANGED <<command, frames, blink, i, transcript, images, durations,
                   artifact, initial, written, file_size, size_bytes, console>>

Next ==
    \/ IdleBlink
    \/ TypeChar
    \/ CommandEcho
    \/ InitialOutput
    \/ Transcription
    \/ FrameExtraction
    \/ DocumentGeneration
    \/ Summary
    \/ SaveOk
    \/ SaveFail
    \/ Report
    \/ OptimizeOk
    \/ OptimizeFail

Spec == Init /\ [][Next]_vars

\* ------------------------------------------------------------ claims
LinesOf(img) == [n \in 1..Len(img.rows) |-> img.rows[n].line]
LineCount(f) == Len(f[1].rows)
Has(msg) == \E n \in 1..Len(console) : console[n] = msg
Built == pc \in {"save", "report", "optimize", "done", "aborted"}
Typed == pc \notin {"blink", "typing"}

\* Index in frames of the first Frame of each work phase: 6 idle-blink
\* Frames, len(command) typing Frames, the echo, the header, the analyzing
\* Frame, then four Frames per phase.
PhaseStarts ==
    {Len(command) + 10, Len(command) + 14, Len(command) + 18}
CompletePhases == {p \in PhaseStarts : Len(frames) >= p + 3}

\* C1: across the Sequence, from the first idle-blink Frame to the final
\* summary Frame, no Frame shows fewer Lines than an earlier Frame.
C1_LineCountNonDecreasing ==
    \A a \in 1..Len(frames) : \A b \in a..Len(frames) :
        LineCount(frames[a]) <= LineCount(frames[b])

C1_Witness ==
    /\ pc = "save"
    /\ LineCount(frames[1]) = 1
    /\ LineCount(frames[Len(frames)]) = 30

\* C2: the typing phase emits exactly len(command) Frames, the k-th showing
\* the single line "$ " + command[0..k) + cursor, the last the whole command.
C2_TypingFrames ==
    /\ pc = "typing" => Len(frames) = 6 + (i - 1) /\ i <= Len(command) + 1
    /\ pc = "header" => Len(frames) = 6 + Len(command) + 1
    /\ pc # "blink" =>
         \A k \in 1..Len(command) :
            k <= Len(frames) - 6 =>
               LinesOf(frames[6 + k][1]) =
                  << << <<"$ ", PROMPT_COLOR>>,
                        <<SubSeq(command, 1, k), TEXT_COLOR>>,
                        <<CURSOR, WHITE>> >> >>
    /\ Typed =>
         /\ Len(frames) >= 6 + Len(command) + 1
         /\ LinesOf(frames[6 + Len(command) + 1][1]) =
               << << <<"$ ", PROMPT_COLOR>>, <<command, TEXT_COLOR>> >> >>
         /\ Len(command) >= 1 =>
               LinesOf(frames[6 + Len(command)][1])[1][2][1] = command

C2_Witness ==
    /\ pc = "header"
    /\ Len(command) >= 2
    /\ Len(frames) = 6 + Len(command) + 1

C4_ReencodePreservesTiming ==
    (pc = "done" /\ optimizeRuns = 1) =>
        /\ Len(artifact.images) = Len(initial.images)
        /\ Len(artifact.images) = Len(frames)
        /\ artifact.duration = initial.duration
        /\ artifact.duration = [n \in 1..Len(frames) |-> frames[n][2]]
        /\ artifact.loop = initial.loop
        /\ artifact.loop = 0
        /\ \A n \in 1..Len(frames) :
              /\ artifact.images[n].rows = initial.images[n].rows
              /\ artifact.images[n].size = initial.images[n].size

C4_Witness ==
    /\ pc = "done"
    /\ optimizeRuns = 1
    /\ written = 2
    /\ artifact.images[1].colors = 64
    /\ initial.images[1].colors > 64

\* C5: the re-encoder runs iff the measured size strictly exceeds
\* 5 * 1024 * 1024 bytes; otherwise the initial artifact is left untouched;
\* the re-encoder runs at most once.
C5_SizeGuard ==
    /\ optimizeRuns <= 1
    /\ IF Has("Size")
       THEN (pc = "optimize" \/ optimizeRuns = 1) <=>
               (size_bytes > 5 * 1024 * 1024)
       ELSE pc # "optimize" /\ optimizeRuns = 0
    /\ (pc = "done" /\ size_bytes <= 5 * 1024 * 1024) =>
          /\ artifact = initial
          /\ artifact = Encode(images, durations)
          /\ written = 1
    /\ (pc = "done" /\ size_bytes > 5 * 1024 * 1024) => written = 2

C5_Witness ==
    /\ pc = "done"
    /\ size_bytes = 5 * 1024 * 1024
    /\ optimizeRuns = 0
    /\ artifact = initial

Reported == Has("Saved to") /\ Has("Size")

\* C6: every run ends either aborted with no artifact written, or successful
\* with the artifact written and its size and path reported.
C6_AbortedWritesNothing ==
    /\ pc = "aborted" => written = 0 /\ artifact = NoArtifact
    /\ pc = "done" => written >= 1 /\ Reported

C6_Outcome ==
    /\ optimizeRuns <= 1
    /\ pc = "done" =>
          /\ written = 1 + optimizeRuns
          /\ artifact # NoArtifact
          /\ Reported
          /\ optimizeRuns = 1 => Has("Optimized size")
    /\ pc = "aborted" =>
          \/ /\ optimizeRuns = 0
             /\ written = 0
             /\ artifact = NoArtifact
             /\ ~Reported
          \/ /\ optimizeRuns = 1
             /\ written = 1
             /\ artifact = initial
             /\ Reported
             /\ ~Has("Optimized size")

\* C6 as amended: every run ends aborted or successful, a successful run
\* having written the artifact and reported its size and path; a failing
\* encode step aborts the run with no retry and no later step; an aborted
\* run has completed no write when the initial encode failed, and has
\* written and reported the initial artifact when the re-encode failed.
C6_AbortOrSuccess ==
    [][pc \notin {"done", "aborted"} /\ C6_Outcome']_vars

C6_Witness ==
    /\ pc = "aborted"
    /\ written = 1
    /\ optimizeRuns = 1

\* C7: the last Frame of the Sequence lasts strictly longer than every
\* other Frame.
C7_FinalHoldLongest ==
    Built =>
        \A n \in 1..(Len(frames) - 1) :
            frames[n][2] < frames[Len(frames)][2]

C7_Witness ==
    /\ pc = "save"
    /\ frames[Len(frames)][2] = 3000
    /\ \E n \in 1..(Len(frames) - 1) : frames[n][2] = 1800

\* C8: in each work phase the done Frame's transcript is the previous
\* Frame's transcript plus one Line; the processing Line stays in place.
C8_DoneLineAppended ==
    \A p \in CompletePhases :
        LET prev == LinesOf(frames[p + 2][1])
            cur == LinesOf(frames[p + 3][1])
        IN /\ Len(cur) = Len(prev) + 1
           /\ SubSeq(cur, 1, Len(prev)) = prev
           /\ prev[Len(prev)][1][1] = "    U+251C U+2500 "
           /\ cur[Len(prev)][1][1] = "    U+251C U+2500 "
           /\ cur[Len(cur)][2][1] = "U+2713 "

C8_Witness ==
    /\ Cardinality(CompletePhases) = 3
    /\ LineCount(frames[Len(command) + 21]) = 20
    /\ LineCount(frames[Len(command) + 20]) = 19

\* C9: in each work phase the header Frame is short, every processing Frame
\* lasts longer than the header Frame, and the confirmation Frame is the
\* shortest of the phase.
C9_ConfirmationShortest ==
    \A p \in CompletePhases :
        /\ frames[p][2] < frames[p + 1][2]
        /\ frames[p][2] < frames[p + 2][2]
        /\ frames[p + 3][2] <= frames[p][2]
        /\ frames[p + 3][2] <= frames[p + 1][2]
        /\ frames[p + 3][2] <= frames[p + 2][2]

\* C9 as amended: in each work phase the header Frame is the shortest of
\* the phase, every processing Frame lasts longer than the header Frame, and
\* the confirmation Frame lasts longer than the header Frame and no longer
\* than the processing Frame right before it.
C9_HeaderShortest ==
    \A p \in CompletePhases :
        /\ frames[p][2] < frames[p + 1][2]
        /\ frames[p][2] < frames[p + 2][2]
        /\ frames[p][2] < frames[p + 3][2]
        /\ frames[p + 3][2] <= frames[p + 2][2]

C9_Witness ==
    /\ Cardinality(CompletePhases) = 3
    /\ frames[Len(command) + 10][2] = 500
    /\ frames[Len(command) + 13][2] = 800
    /\ frames[Len(command) + 21][2] = 800

\* C10: every Line of every Frame lies inside the canvas: below the title
\* bar, and with its row's bottom edge at or above the bitmap's bottom edge.
C10_RowsInsideCanvas ==
    \A f \in 1..Len(frames) :
        LET img == frames[f][1]
        IN /\ PADDING_Y + Len(img.rows) * LINE_HEIGHT <= img.size[2]
           /\ img.size = <<800, 720>>
           /\ \A n \in 1..Len(img.rows) :
                 /\ img.rows[n].y > TITLE_BAR_H
                 /\ img.rows[n].y + LINE_HEIGHT <= img.size[2]

C10_Witness ==
    /\ Built
    /\ Len(frames[Len(frames)][1].rows) = 30
    /\ frames[Len(frames)][1].rows[30].y + LINE_HEIGHT = 710
====
